---- MODULE Spec2Model ----
(***************************************************************************)
(* Model of analyze_text (src/src/analyze_text.py): the windowed           *)
(* dictionary-matching pipeline.  Strings that the code inspects character *)
(* by character (dictionary words, tokens, category codes) are sequences   *)
(* of one-character strings; an utterance's text is its token sequence.    *)
(* The `for speaker in ...` statement of line 127 is read at the           *)
(* indentation of the function body, with lines 128-142 as its body.       *)
(***************************************************************************)
EXTENDS Integers, Sequences, FiniteSets, TLC

VARIABLES pc, task_cutoff, dictionary_df, raw_transcript, transcript_df,
          category_words, category_patterns, all_categories,
          time_points, wi, df_windows, speaker_time_series,
          todo_speakers, speaker_files, group_time_series_df

vars == <<pc, task_cutoff, dictionary_df, raw_transcript, transcript_df,
          category_words, category_patterns, all_categories,
          time_points, wi, df_windows, speaker_time_series,
          todo_speakers, speaker_files, group_time_series_df>>

----------------------------------------------------------------------------
(* Bounds of the model *)
MaxUtt == 2
MaxDict == 2
MaxWordLen == 3
MaxTokLen == 3

(* Program constants *)
window_size == 30
step_size == 15
participant_speakers == {"HCILab1", "HCILab2", "CSL_Laptop", "CSL_LabPC"}

(* Not-a-number: the value pandas puts in a column a frame does not have. *)
NaN == -1

(* Python's string order on the speaker labels that can reach a row. *)
SpeakerOrder == <<"CSL_LabPC", "CSL_Laptop", "HCILab1", "HCILab2", "None">>

SpeakerRank(s) == CHOOSE i \in 1..Len(SpeakerOrder) : SpeakerOrder[i] = s

----------------------------------------------------------------------------
(* Generic helpers *)
Range(s) == {s[i] : i \in 1..Len(s)}

RECURSIVE SeqsUpTo(_, _)
SeqsUpTo(S, n) ==
  IF n = 0 THEN {<<>>}
  ELSE LET shorter == SeqsUpTo(S, n - 1)
       IN  shorter \cup {Append(s, x) : s \in {q \in shorter : Len(q) = n - 1}, x \in S}

RECURSIVE SumOver(_, _)
SumOver(f, S) ==
  IF S = {} THEN 0
  ELSE LET x == CHOOSE y \in S : TRUE IN f[x] + SumOver(f, S \ {x})

----------------------------------------------------------------------------
(* Wildcard translation and matching *)

(* re.sub(r'\*', r'.*', word): every '*' becomes the two characters '.*' *)
RECURSIVE ReSub(_)
ReSub(word) ==
  IF word = <<>> THEN <<>>
  ELSE IF Head(word) = "*" THEN <<".", "*">> \o ReSub(Tail(word))
       ELSE <<Head(word)>> \o ReSub(Tail(word))

CharMatch(p, c) == p = "." \/ p = c

(* pat.match(token): the regex must match starting at the token's first    *)
(* character; nothing anchors the end.                                     *)
RECURSIVE ReMatchFrom(_, _, _, _)
ReMatchFrom(re, i, token, j) ==
  IF i > Len(re) THEN TRUE
  ELSE IF i + 1 <= Len(re) /\ re[i + 1] = "*"
       THEN \/ ReMatchFrom(re, i + 2, token, j)
            \/ /\ j <= Len(token)
               /\ CharMatch(re[i], token[j])
               /\ ReMatchFrom(re, i, token, j + 1)
       ELSE /\ j <= Len(token)
            /\ CharMatch(re[i], token[j])
            /\ ReMatchFrom(re, i + 1, token, j + 1)

(* variant: re.search, a match starting anywhere in the token *)
PatSearch(re, token) == \E j \in 1..(Len(token) + 1) : ReMatchFrom(re, 1, token, j)

PatMatch(re, token) == ReMatchFrom(re, 1, token, 1)

----------------------------------------------------------------------------
(* Inputs *)
Art == <<"a", "r", "t">>
Arts == <<"a", "r", "t", "s">>
Um == <<"u", "m">>
ArtStar == <<"a", "r", "t", "*">>

CatX == <<"X">>
CatY == <<"Y">>
CatNeg == <<"N", "X">>

Speakers == {"HCILab1", "HCILab2", "Guest"}
Texts == {<<Um>>, <<Art, Arts>>}
Spans == {<<0, 20>>, <<0, 5>>, <<30, 5>>, <<20, 40>>}
Utterances ==
  {[start |-> sp[1], end |-> sp[2], text |-> tx, speaker |-> s] :
     sp \in Spans, tx \in Texts, s \in Speakers}

DictEntries ==
  {[words |-> w, diction_code |-> c] : w \in {Art, ArtStar}, c \in {CatX, CatY, CatNeg}}

SeriesDictionaries ==
  {<<[words |-> Art, diction_code |-> CatX]>>,
   <<[words |-> ArtStar, diction_code |-> CatX], [words |-> Art, diction_code |-> CatY],
     [words |-> Art, diction_code |-> CatNeg]>>}

Cutoffs ==
  {[start |-> 0, end |-> 0], [start |-> 0, end |-> 15],
   [start |-> 0, end |-> 40], [start |-> 10, end |-> 40]}

LexUtterances ==
  {[start |-> 0, end |-> e, text |-> <<Art, Arts>>, speaker |-> s] :
     e \in {5, 20}, s \in {"HCILab1", "HCILab2"}}

LexCutoffs == {[start |-> 0, end |-> 15], [start |-> 0, end |-> 40]}

(* Words and tokens over a two-letter alphabet, for the wildcard semantics *)
Letters == {"a", "t"}
WildWords == SeqsUpTo(Letters \cup {"*"}, MaxWordLen) \ {<<>>}
PlainTokens == SeqsUpTo(Letters, MaxTokLen) \ {<<>>}

----------------------------------------------------------------------------
(* Lexicon Builder, lines 31-48 *)
Put(f, k, v) == [x \in DOMAIN f \cup {k} |-> IF x = k THEN v ELSE f[x]]

HasStar(word) == \E i \in 1..Len(word) : word[i] = "*"

(* variant: the whole code is compared with 'N' *)
IsNegativeWhole(category) == category = <<"N">>

IsNegative(category) == category[1] = "N"

RECURSIVE BuildLexicon(_, _, _)
BuildLexicon(rows, cw, cp) ==
  IF rows = <<>> THEN [words |-> cw, patterns |-> cp]
  ELSE LET word == Head(rows).words
           category == Head(rows).diction_code
       IN  IF IsNegative(category) THEN BuildLexicon(Tail(rows), cw, cp)
           ELSE IF HasStar(word)
                THEN BuildLexicon(Tail(rows), cw,
                       Put(cp, category,
                           Append(IF category \in DOMAIN cp THEN cp[category] ELSE <<>>,
                                  ReSub(word))))
                ELSE BuildLexicon(Tail(rows),
                       Put(cw, category,
                           (IF category \in DOMAIN cw THEN cw[category] ELSE {}) \cup {word}),
                       cp)

----------------------------------------------------------------------------
(* Utterance Filter, lines 20-29 *)
IsNumber(x) == x # NaN

InCutoff(row, cutoff) ==
  /\ IsNumber(row.start) /\ IsNumber(row.end)
  /\ row.start >= cutoff.start
  /\ row.end <= cutoff.end

(* The frame read from the CSV: each row carries its index label. *)
Indexed(rows) ==
  [i \in 1..Len(rows) |->
     [index |-> i, start |-> rows[i].start, end |-> rows[i].end,
      text |-> rows[i].text, speaker |-> rows[i].speaker]]

FilterCutoff(df, cutoff) == SelectSeq(df, LAMBDA row : InCutoff(row, cutoff))

----------------------------------------------------------------------------
(* Window Generator, line 62: np.arange(start, end, step) *)
(* variant: the stop value is included *)
RECURSIVE ArangeInclusive(_, _, _)
ArangeInclusive(start, stop, step) ==
  IF start <= stop THEN <<start>> \o ArangeInclusive(start + step, stop, step) ELSE <<>>

RECURSIVE Arange(_, _, _)
Arange(start, stop, step) ==
  IF start < stop THEN <<start>> \o Arange(start + step, stop, step) ELSE <<>>

----------------------------------------------------------------------------
(* Window Matcher, lines 70-120 *)

(* lines 72-76: the rows of the frame selected for the window starting at t *)
(* variant: the overlap test the comment of line 71 words *)
InWindowByStart(row, t) ==
  /\ row.speaker \in participant_speakers
  /\ row.start < t + window_size
  /\ row.end >= t

(* variant: no lower limit on the utterance's end *)
InWindowNoLower(row, t) ==
  /\ row.speaker \in participant_speakers
  /\ row.end < t + window_size

InWindow(row, t) ==
  /\ row.speaker \in participant_speakers
  /\ row.end < t + window_size
  /\ row.end >= t

DfWindow(df, t) == SelectSeq(df, LAMBDA row : InWindow(row, t))

(* lines 90-93: increments of cat from the literal sets *)
LiteralHits(tokens, cat, cw) ==
  IF cat \in DOMAIN cw
  THEN Cardinality({i \in 1..Len(tokens) : tokens[i] \in cw[cat]})
  ELSE 0

(* lines 96-100: increments of cat from the pattern lists *)
RECURSIVE PatternListHits(_, _)
PatternListHits(tokens, pattern_list) ==
  IF pattern_list = <<>> THEN 0
  ELSE Cardinality({i \in 1..Len(tokens) : PatMatch(Head(pattern_list), tokens[i])})
       + PatternListHits(tokens, Tail(pattern_list))

PatternHits(tokens, cat, cp) ==
  IF cat \in DOMAIN cp THEN PatternListHits(tokens, cp[cat]) ELSE 0

(* variant: a token counts once for a category, however many entries hit *)
RowHitsOnce(tokens, cat, cw, cp) ==
  Cardinality({i \in 1..Len(tokens) :
    \/ (cat \in DOMAIN cw /\ tokens[i] \in cw[cat])
    \/ (cat \in DOMAIN cp /\ \E k \in 1..Len(cp[cat]) : PatMatch(cp[cat][k], tokens[i]))})

RowHits(tokens, cat, cw, cp) == LiteralHits(tokens, cat, cw) + PatternHits(tokens, cat, cp)

(* speaker_category is an insertion-ordered map: a sequence of             *)
(* [speaker, cat_counts] whose cat_counts holds only the categories that   *)
(* were incremented.                                                       *)
AddHits(sc, row, cw, cp) ==
  LET hit == {c \in DOMAIN cw \cup DOMAIN cp : RowHits(row.text, c, cw, cp) > 0}
      new == [c \in hit |-> RowHits(row.text, c, cw, cp)]
      at == {i \in 1..Len(sc) : sc[i].speaker = row.speaker}
  IN  IF hit = {} THEN sc
      ELSE IF at = {}
           THEN Append(sc, [speaker |-> row.speaker, cat_counts |-> new])
           ELSE LET i == CHOOSE k \in at : TRUE
                    old == sc[i].cat_counts
                IN  [sc EXCEPT ![i].cat_counts =
                       [c \in DOMAIN old \cup hit |->
                          (IF c \in DOMAIN old THEN old[c] ELSE 0)
                          + (IF c \in hit THEN new[c] ELSE 0)]]

RECURSIVE SpeakerCategory(_, _, _, _)
SpeakerCategory(rows, sc, cw, cp) ==
  IF rows = <<>> THEN sc
  ELSE SpeakerCategory(Tail(rows), AddHits(sc, Head(rows), cw, cp), cw, cp)

(* variant: a silent window gets no placeholder *)
WithoutSentinel(sc, df_window) == sc

(* lines 103-104 *)
WithSentinel(sc, df_window) ==
  IF Len(df_window) = 0 THEN Append(sc, [speaker |-> "None", cat_counts |-> <<>>]) ELSE sc

(* lines 111-118 *)
RowDict(speaker, cat_counts, t, cats) ==
  [speaker |-> speaker, window_start |-> t, window_end |-> t + window_size,
   counts |-> [c \in cats |-> IF c \in DOMAIN cat_counts THEN cat_counts[c] ELSE 0]]

WindowRows(df, t, cw, cp, cats) ==
  LET df_window == DfWindow(df, t)
      sc == WithSentinel(SpeakerCategory(df_window, <<>>, cw, cp), df_window)
  IN  [i \in 1..Len(sc) |-> RowDict(sc[i].speaker, sc[i].cat_counts, t, cats)]

----------------------------------------------------------------------------
(* Series Assembler, lines 123-152 *)

(* sort position of a window_start value: NaN sorts last *)
StartBefore(a, b) == IF a = NaN THEN FALSE ELSE (b = NaN \/ a < b)

ByWindowSpeaker(r1, r2) ==
  \/ StartBefore(r1.window_start, r2.window_start)
  \/ /\ r1.window_start = r2.window_start
     /\ SpeakerRank(r1.speaker) < SpeakerRank(r2.speaker)

ByWindow(r1, r2) == StartBefore(r1.window_start, r2.window_start)

(* the order that sort_values(by=...) sorts into *)
Before(by, r1, r2) ==
  IF by = <<"window_start", "speaker">> THEN ByWindowSpeaker(r1, r2) ELSE ByWindow(r1, r2)

(* stable sort: a row's position is one more than the number of rows that *)
(* come before it                                                          *)
SortValues(rows, by) ==
  LET Pos(i) == 1 + Cardinality({j \in 1..Len(rows) :
                     \/ Before(by, rows[j], rows[i])
                     \/ (~Before(by, rows[i], rows[j]) /\ j < i)})
  IN  [p \in 1..Len(rows) |-> rows[CHOOSE i \in 1..Len(rows) : Pos(i) = p]]

(* Series.unique(): first occurrences, in order *)
RECURSIVE Unique(_)
Unique(s) ==
  IF s = <<>> THEN <<>>
  ELSE LET init == Unique(SubSeq(s, 1, Len(s) - 1))
           last == s[Len(s)]
       IN  IF last \in Range(init) THEN init ELSE Append(init, last)

(* the category columns of the frame built from the row dicts *)
Columns(df) == UNION {DOMAIN df[i].counts : i \in 1..Len(df)}

(* sorted group keys of df.groupby(['window_start', 'window_end']) *)
GroupKeys(df) ==
  LET keys == {<<df[i].window_start, df[i].window_end>> : i \in 1..Len(df)}
      SortKeys[K \in SUBSET keys] ==
        IF K = {} THEN <<>>
        ELSE LET k == CHOOSE x \in K : \A y \in K : x[1] <= y[1]
             IN  <<k>> \o SortKeys[K \ {k}]
  IN  SortKeys[keys]

(* lines 128-137: one speaker's series *)
DfSingle(df, speaker) ==
  LET df_single == SelectSeq(df, LAMBDA r : r.speaker \in {speaker, "None"})
      present == {df_single[i].window_start : i \in 1..Len(df_single)}
      absent == SelectSeq(df, LAMBDA r : r.window_start \notin present)
      keys == GroupKeys(absent)
      (* the group keys are the index of missing_rows; concat with          *)
      (* ignore_index=True drops them, leaving the two columns unfilled     *)
      missing_rows == [i \in 1..Len(keys) |->
                         [speaker |-> "None", window_start |-> NaN, window_end |-> NaN,
                          counts |-> [c \in Columns(df) |-> 0]]]
  IN  SortValues(df_single \o missing_rows, <<"window_start">>)

(* line 145: ', '.join(sorted(x.unique())), kept as the list of its pieces *)
RECURSIVE Join(_)
Join(names) ==
  IF Len(names) <= 1 THEN names
  ELSE <<Head(names), ", ">> \o Join(Tail(names))

SortNames(S) ==
  LET Sorted[K \in SUBSET S] ==
        IF K = {} THEN <<>>
        ELSE LET n == CHOOSE x \in K : \A y \in K : SpeakerRank(x) <= SpeakerRank(y)
             IN  <<n>> \o Sorted[K \ {n}]
  IN  Sorted[S]

speaker_agg(x) == Join(SortNames(Range(x)))

(* lines 147-150 *)
GroupTimeSeries(df) ==
  LET keys == GroupKeys(df)
  IN  [i \in 1..Len(keys) |->
         LET grp == SelectSeq(df, LAMBDA r : r.window_start = keys[i][1]
                                             /\ r.window_end = keys[i][2])
             key == keys[i]
         IN  [window_start |-> key[1], window_end |-> key[2],
              counts |-> [c \in Columns(df) |->
                            SumOver([j \in 1..Len(grp) |-> grp[j].counts[c]], 1..Len(grp))],
              speaker |-> speaker_agg([j \in 1..Len(grp) |-> grp[j].speaker])]]

----------------------------------------------------------------------------
(* The run of analyze_text *)

Blank ==
  /\ pc = "load"
  /\ transcript_df = <<>>
  /\ category_words = <<>>
  /\ category_patterns = <<>>
  /\ all_categories = {}
  /\ time_points = <<>>
  /\ wi = 1
  /\ df_windows = <<>>
  /\ speaker_time_series = <<>>
  /\ todo_speakers = <<>>
  /\ speaker_files = <<>>
  /\ group_time_series_df = <<>>

(* sessions that vary in their utterances, under two dictionaries *)
Init ==
  /\ task_cutoff \in Cutoffs
  /\ dictionary_df \in SeriesDictionaries
  /\ raw_transcript \in SeqsUpTo(Utterances, MaxUtt)
  /\ Blank

(* sessions that vary in their dictionary *)
InitLex ==
  /\ task_cutoff \in LexCutoffs
  /\ dictionary_df \in SeqsUpTo(DictEntries, MaxDict)
  /\ raw_transcript \in SeqsUpTo(LexUtterances, MaxUtt)
  /\ Blank

(* one wildcard-or-literal word against one token, in a one-window session *)
InitMatch ==
  /\ task_cutoff = [start |-> 0, end |-> 15]
  /\ dictionary_df \in {<<[words |-> w, diction_code |-> CatX]>> : w \in WildWords}
  /\ raw_transcript \in
       {<<[start |-> 0, end |-> 5, text |-> <<tok>>, speaker |-> "HCILab1"]>> :
          tok \in PlainTokens}
  /\ Blank

(* lines 14-29 *)
LoadAndFilter ==
  /\ pc = "load"
  /\ transcript_df' = FilterCutoff(Indexed(raw_transcript), task_cutoff)
  /\ pc' = "lexicon"
  /\ UNCHANGED <<task_cutoff, dictionary_df, raw_transcript, category_words,
                 category_patterns, all_categories, time_points, wi, df_windows,
                 speaker_time_series, todo_speakers, speaker_files,
                 group_time_series_df>>

(* lines 31-48 *)
Lexicon ==
  /\ pc = "lexicon"
  /\ LET lex == BuildLexicon(dictionary_df, <<>>, <<>>)
     IN  /\ category_words' = lex.words
         /\ category_patterns' = lex.patterns
  /\ pc' = "preprocess"
  /\ UNCHANGED <<task_cutoff, dictionary_df, raw_transcript, transcript_df,
                 all_categories, time_points, wi, df_windows, speaker_time_series,
                 todo_speakers, speaker_files, group_time_series_df>>

(* lines 50-64 *)
Preprocess ==
  /\ pc = "preprocess"
  /\ time_points' = Arange(task_cutoff.start, task_cutoff.end, step_size)
  /\ all_categories' = DOMAIN category_words \cup DOMAIN category_patterns
  /\ wi' = 1
  /\ pc' = "windows"
  /\ UNCHANGED <<task_cutoff, dictionary_df, raw_transcript, transcript_df,
                 category_words, category_patterns, df_windows,
                 speaker_time_series, todo_speakers, speaker_files,
                 group_time_series_df>>

(* lines 66-120: one iteration of the loop over time_points *)
ProcessWindow ==
  /\ pc = "windows"
  /\ wi <= Len(time_points)
  /\ LET t == time_points[wi]
         df_window == DfWindow(transcript_df, t)
     IN  /\ df_windows' = Put(df_windows, t, {df_window[i].index : i \in 1..Len(df_window)})
         /\ speaker_time_series' =
              speaker_time_series \o
              WindowRows(transcript_df, t, category_words, category_patterns, all_categories)
  /\ wi' = wi + 1
  /\ UNCHANGED <<pc, task_cutoff, dictionary_df, raw_transcript, transcript_df,
                 category_words, category_patterns, all_categories, time_points,
                 todo_speakers, speaker_files, group_time_series_df>>

(* lines 123-127: the frame of the rows, sorted; the speakers to write *)
SortSeries ==
  /\ pc = "windows"
  /\ wi > Len(time_points)
  /\ speaker_time_series # <<>>
  /\ LET df == SortValues(speaker_time_series, <<"window_start", "speaker">>)
         real == SelectSeq(df, LAMBDA r : r.speaker # "None")
     IN  /\ speaker_time_series' = df
         /\ todo_speakers' = Unique([i \in 1..Len(real) |-> real[i].speaker])
  /\ pc' = "speakers"
  /\ UNCHANGED <<task_cutoff, dictionary_df, raw_transcript, transcript_df,
                 category_words, category_patterns, all_categories, time_points, wi,
                 df_windows, speaker_files, group_time_series_df>>

(* lines 123-124 with no row: the frame has no column to sort by (KeyError) *)
SortFails ==
  /\ pc = "windows"
  /\ wi > Len(time_points)
  /\ speaker_time_series = <<>>
  /\ pc' = "error"
  /\ UNCHANGED <<task_cutoff, dictionary_df, raw_transcript, transcript_df,
                 category_words, category_patterns, all_categories, time_points, wi,
                 df_windows, speaker_time_series, todo_speakers, speaker_files,
                 group_time_series_df>>

(* lines 127-142: one iteration of the loop over the real speakers *)
WriteSpeaker ==
  /\ pc = "speakers"
  /\ todo_speakers # <<>>
  /\ speaker_files' = Put(speaker_files, Head(todo_speakers),
                          DfSingle(speaker_time_series, Head(todo_speakers)))
  /\ todo_speakers' = Tail(todo_speakers)
  /\ UNCHANGED <<pc, task_cutoff, dictionary_df, raw_transcript, transcript_df,
                 category_words, category_patterns, all_categories, time_points, wi,
                 df_windows, speaker_time_series, group_time_series_df>>

(* lines 144-153 *)
WriteGroup ==
  /\ pc = "speakers"
  /\ todo_speakers = <<>>
  /\ group_time_series_df' = GroupTimeSeries(speaker_time_series)
  /\ pc' = "done"
  /\ UNCHANGED <<task_cutoff, dictionary_df, raw_transcript, transcript_df,
                 category_words, category_patterns, all_categories, time_points, wi,
                 df_windows, speaker_time_series, todo_speakers, speaker_files>>

Next ==
  \/ LoadAndFilter
  \/ Lexicon
  \/ Preprocess
  \/ ProcessWindow
  \/ SortSeries
  \/ SortFails
  \/ WriteSpeaker
  \/ WriteGroup

Spec == Init /\ [][Next]_vars

SpecLex == InitLex /\ [][Next]_vars

SpecMatch == InitMatch /\ [][Next]_vars

----------------------------------------------------------------------------
(* Vocabulary of the properties *)

Started == pc \notin {"load", "lexicon", "preprocess"}

AllWindowsDone == Started /\ wi > Len(time_points)

(* start_i = bounds.start + 15*i with start_i < bounds.end *)
GeneratedStarts ==
  {t \in task_cutoff.start..(task_cutoff.end - 1) : (t - task_cutoff.start) % 15 = 0}

AllowList == {"HCILab1", "HCILab2", "CSL_Laptop", "CSL_LabPC"}

TallyRows == Range(speaker_time_series)

FileRows == UNION {Range(speaker_files[s]) : s \in DOMAIN speaker_files}

GroupRows == Range(group_time_series_df)

(* the utterances of the transcript that the window starting at t selected *)
WindowsOf(i) == {t \in DOMAIN df_windows : i \in df_windows[t]}

ZeroCounts(r) == \A c \in DOMAIN r.counts : r.counts[c] = 0

----------------------------------------------------------------------------
(* C9: the generated windows are exactly start + 15*i below the cutoff's   *)
(* end, visited in ascending order; every window is 30 long and            *)
(* consecutive starts differ by 15.                                        *)
C9_WindowGrid ==
  Started =>
    /\ Len(time_points) = Cardinality(GeneratedStarts)
    /\ \A i \in 1..Len(time_points) : time_points[i] = task_cutoff.start + 15 * (i - 1)
    /\ \A i \in 1..(Len(time_points) - 1) : time_points[i + 1] - time_points[i] = 15
    /\ DOMAIN df_windows = {time_points[i] : i \in 1..(wi - 1)}
    /\ \A r \in TallyRows :
         /\ r.window_start \in DOMAIN df_windows
         /\ r.window_end - r.window_start = 30

C9_Witness ==
  /\ AllWindowsDone
  /\ Len(time_points) = 3
  /\ \E r \in TallyRows :
       r.window_start = time_points[3] /\ r.window_end > task_cutoff.end

----------------------------------------------------------------------------
----------------------------------------------------------------------------
----------------------------------------------------------------------------
(* C8: with start < end and no utterance selected by any window, the run   *)
(* does not fail; the tally is one all-zero 'None' row per window, no      *)
(* speaker file is written and the group series is all-zero rows.          *)
C8_SilentSession ==
  (/\ AllWindowsDone
   /\ task_cutoff.start < task_cutoff.end
   /\ \A t \in DOMAIN df_windows : df_windows[t] = {}) =>
    /\ pc # "error"
    /\ Len(speaker_time_series) = Len(time_points)
    /\ \A i \in 1..Len(time_points) :
         /\ speaker_time_series[i].speaker = "None"
         /\ speaker_time_series[i].window_start = time_points[i]
         /\ ZeroCounts(speaker_time_series[i])
    /\ pc \in {"speakers", "done"} => (todo_speakers = <<>> /\ DOMAIN speaker_files = {})
    /\ pc = "done" =>
         /\ Len(group_time_series_df) = Len(time_points)
         /\ \A i \in 1..Len(time_points) :
              /\ group_time_series_df[i].window_start = time_points[i]
              /\ group_time_series_df[i].speaker = <<"None">>
              /\ ZeroCounts(group_time_series_df[i])

C8_Witness ==
  /\ pc = "done"
  /\ Len(time_points) = 2
  /\ Len(raw_transcript) = 2
  /\ \A t \in DOMAIN df_windows : df_windows[t] = {}
  /\ \E r \in GroupRows : r.counts # <<>>

----------------------------------------------------------------------------
(* C4: for every window, speaker and category the tallied count is the sum,*)
(* over the speaker's selected utterances and their token occurrences, of  *)
(* 1 if the token is a literal word of the category plus the number of the *)
(* category's wildcard entries that match it.                              *)
EntryHits(tok, c) ==
  (IF \E d \in 1..Len(dictionary_df) :
        /\ dictionary_df[d].diction_code = c
        /\ ~HasStar(dictionary_df[d].words)
        /\ dictionary_df[d].words = tok
   THEN 1 ELSE 0)
  + Cardinality({d \in 1..Len(dictionary_df) :
                   /\ dictionary_df[d].diction_code = c
                   /\ HasStar(dictionary_df[d].words)
                   /\ PatMatch(ReSub(dictionary_df[d].words), tok)})

UtteranceHits(tokens, c) ==
  SumOver([k \in 1..Len(tokens) |-> EntryHits(tokens[k], c)], 1..Len(tokens))

Tallied(t, s, c) ==
  LET at == {i \in 1..Len(speaker_time_series) :
               /\ speaker_time_series[i].window_start = t
               /\ speaker_time_series[i].speaker = s}
  IN  IF at = {} THEN 0 ELSE speaker_time_series[CHOOSE i \in at : TRUE].counts[c]

C4_Counts ==
  \A t \in DOMAIN df_windows : \A s \in AllowList : \A c \in all_categories :
    /\ Cardinality({i \in 1..Len(speaker_time_series) :
                      /\ speaker_time_series[i].window_start = t
                      /\ speaker_time_series[i].speaker = s}) <= 1
    /\ Tallied(t, s, c) =
         SumOver([i \in df_windows[t] |->
                    IF raw_transcript[i].speaker = s
                    THEN UtteranceHits(raw_transcript[i].text, c) ELSE 0],
                 df_windows[t])

(* one utterance 'art arts' under art -> X, art* -> X, art* -> Y: X counts *)
(* 'art' twice and 'arts' once, Y counts both tokens                       *)
C4_Witness ==
  /\ pc = "done"
  /\ Len(raw_transcript) = 1
  /\ \E d1, d2 \in 1..Len(dictionary_df) :
       /\ dictionary_df[d1] = [words |-> Art, diction_code |-> CatX]
       /\ dictionary_df[d2] = [words |-> ArtStar, diction_code |-> CatX]
  /\ \E r \in TallyRows : r.speaker = "HCILab1" /\ r.counts[CatX] = 3

----------------------------------------------------------------------------
(* C6: every row of every table has exactly the category columns           *)
(* allCategories - the codes of the dictionary entries, literal or         *)
(* wildcard, that do not start with 'N' - each a non-negative integer.     *)
ExpectedCategories ==
  {dictionary_df[d].diction_code :
     d \in {e \in 1..Len(dictionary_df) : dictionary_df[e].diction_code[1] # "N"}}

CategoryColumns(r) ==
  /\ DOMAIN r.counts = ExpectedCategories
  /\ \A c \in DOMAIN r.counts : r.counts[c] \in Nat

C6_Columns ==
  /\ Started => all_categories = ExpectedCategories
  /\ \A c \in all_categories : c[1] # "N"
  /\ \A r \in TallyRows : CategoryColumns(r)
  /\ \A r \in FileRows : CategoryColumns(r)
  /\ \A r \in GroupRows : CategoryColumns(r)

C6_Witness ==
  /\ pc = "done"
  /\ \E d1, d2 \in 1..Len(dictionary_df) :
       /\ dictionary_df[d1].diction_code = CatNeg
       /\ dictionary_df[d2] = [words |-> ArtStar, diction_code |-> CatY]
  /\ \E r \in FileRows : r.speaker = "None" /\ r.counts = (CatY :> 0)
  /\ \E r \in GroupRows : r.counts[CatY] > 0

----------------------------------------------------------------------------
(* C7, as claimed: a token matches a wildcard word iff it starts with the  *)
(* text before the word's '*', wherever the '*' stands in the word.        *)
MatchWord == dictionary_df[1].words

MatchToken == raw_transcript[1].text[1]

Matched == \E r \in TallyRows : r.speaker = "HCILab1" /\ r.counts[CatX] >= 1

FirstStar(word) == CHOOSE i \in 1..Len(word) : word[i] = "*" /\ \A j \in 1..(i - 1) : word[j] # "*"

FixedPrefix(word) == SubSeq(word, 1, FirstStar(word) - 1)

StartsWith(token, prefix) ==
  Len(prefix) <= Len(token) /\ SubSeq(token, 1, Len(prefix)) = prefix

C7_PrefixOnly ==
  (AllWindowsDone /\ HasStar(MatchWord)) =>
    (Matched <=> StartsWith(MatchToken, FixedPrefix(MatchWord)))

(* C7, amended: a token matches a wildcard word iff some prefix of the     *)
(* token is the word with every '*' replaced by a possibly empty run of    *)
(* characters; when the only '*' is the word's last character, iff the     *)
(* token starts with the text before it.                                   *)
(* p[i] is the number of token characters used up by word[1..i] *)
Consumes(word, token) ==
  \E p \in [1..Len(word) -> 0..Len(token)] :
    \A i \in 1..Len(word) :
      LET prev == IF i = 1 THEN 0 ELSE p[i - 1]
      IN  IF word[i] = "*" THEN p[i] >= prev
          ELSE p[i] = prev + 1 /\ token[p[i]] = word[i]

C7_GlobPrefix ==
  (AllWindowsDone /\ HasStar(MatchWord)) =>
    /\ Matched <=> Consumes(MatchWord, MatchToken)
    /\ FirstStar(MatchWord) = Len(MatchWord) =>
         (Matched <=> StartsWith(MatchToken, FixedPrefix(MatchWord)))

C7_Witness ==
  /\ AllWindowsDone
  /\ MatchWord = <<"*", "t">>
  /\ MatchToken = <<"a", "a", "t">>
  /\ Matched

----------------------------------------------------------------------------
(* C1, as claimed: every speaker's series has exactly one row for every    *)
(* generated window - the speaker's own tally row where there is one,      *)
(* otherwise an all-zero row labelled 'None'.                              *)
C1_DenseSpeakerSeries ==
  pc = "done" =>
    \A s \in DOMAIN speaker_files :
      LET f == speaker_files[s]
      IN  /\ Len(f) = Cardinality(GeneratedStarts)
          /\ \A t \in GeneratedStarts :
               LET at == {k \in 1..Len(f) : f[k].window_start = t}
                   own == {r \in TallyRows : r.window_start = t /\ r.speaker = s}
               IN  /\ Cardinality(at) = 1
                   /\ \A k \in at :
                        IF own # {} THEN f[k] \in own
                        ELSE f[k].speaker = "None" /\ ZeroCounts(f[k])

----------------------------------------------------------------------------
(* C2, as claimed: the group series has exactly one row per generated      *)
(* window, in ascending order of window_start, whatever the transcript.    *)
C2_DenseGroupSeries ==
  pc = "done" =>
    /\ Len(group_time_series_df) = Cardinality(GeneratedStarts)
    /\ \A i \in 1..Len(group_time_series_df) :
         group_time_series_df[i].window_start = task_cutoff.start + 15 * (i - 1)

----------------------------------------------------------------------------
(* C3, as claimed: a group row names every speaker with an utterance       *)
(* selected by its window, matching or not, sorted and comma-joined, and   *)
(* its counts are the sums over those speakers.                            *)
C3_GroupSpeakers ==
  pc = "done" =>
    \A r \in GroupRows :
      LET members == df_windows[r.window_start]
      IN  members # {} =>
            /\ r.speaker = Join(SortNames({raw_transcript[i].speaker : i \in members}))
            /\ \A c \in all_categories :
                 r.counts[c] =
                   SumOver([i \in members |-> UtteranceHits(raw_transcript[i].text, c)],
                           members)

====
